---- MODULE Spec2Model ----
\* State-machine model of src/app.js (PhotoShare browser client):
\* the PhotoGallery view state (page, filters, photo list, in-flight
\* fetches), UIComponents.createPagination, AuthService and the
\* comment/rating submissions of PhotoService.
EXTENDS Integers, Sequences, FiniteSets, TLC

\* ---------------------------------------------------------------- bounds
MaxPages == 3        \* largest page count the server reports
MaxFetches == 3      \* photo fetches issued in one behaviour
MaxTotal == 20       \* largest totalPages handed to createPagination
MaxLogins == 1       \* login requests in flight at once

\* ------------------------------------------------------------ constants
ITEMS_PER_PAGE == 12
maxVisible == 5

Undefined == "undefined"
Null == "null"
NoElement == "no-element"
Terms == {"", "cat"}
\* null in a slot that otherwise holds a user record / a stored string
NullUser == [id |-> 0, username |-> Null, role |-> Null]
NullItem == <<>>
Users == {[id |-> 7, username |-> "ann", role |-> "consumer"]}
PhotoIds == {101}
\* photo lists are opaque to the client: the empty array and one other
EmptyList == "[]"
PhotoLists == {EmptyList, "[p1]"}
Documents == {"consumer.html", "index.html"}

Max(a, b) == IF a >= b THEN a ELSE b
Min(a, b) == IF a <= b THEN a ELSE b

VARIABLES
    currentPage,   \* PhotoGallery.currentPage
    totalPages,    \* PhotoGallery.totalPages
    filters,       \* PhotoGallery.filters
    photos,        \* PhotoGallery.photos
    pagination,    \* the #pagination container: display and rendered controls
    inflight,      \* GET /photos requests issued and not yet settled
    nextId,        \* issue order of the photo fetches
    heldFrom,      \* which request's response photos and totalPages hold
    currentUser,   \* appState.currentUser
    lsUser,        \* localStorage photoapp_user
    lsToken,       \* localStorage photoapp_token
    logins,        \* POST /login requests in flight
    posts,         \* POST comment / rate requests in flight
    lastOp         \* the handler that ran last and what it reported

galleryVars == <<currentPage, totalPages, filters, photos, pagination,
                 inflight, nextId, heldFrom>>
authVars == <<currentUser, lsUser, lsToken, logins, posts>>
vars == <<currentPage, totalPages, filters, photos, pagination, inflight,
          nextId, heldFrom, currentUser, lsUser, lsToken, logins, posts,
          lastOp>>

\* What a handler run reports: its caller-visible result ("resolved",
\* "rejected", "issued", "noop"), the cause of a rejection, whether
\* Utils.showNotification was called with type 'error', whether the run
\* wrote photos/totalPages, and what it replaced (prev: for loadPhotos the
\* request whose data was held before, for searchPhotos the page before).
Op(op, cause, result) ==
    [op |-> op, page |-> 0, text |-> Undefined, user |-> NullUser, id |-> 0,
     cause |-> cause, result |-> result, notified |-> FALSE,
     applied |-> FALSE, prev |-> 0]

DefaultFilters ==
    [search |-> "", sort |-> "newest", location |-> "all", minRating |-> 0]

NoParams ==
    [page |-> 0, limit |-> 0, search |-> Undefined, sort |-> Undefined,
     location |-> Undefined, minRating |-> 0]
NoneHeld == [id |-> 0, params |-> NoParams]
NoHeld == [photos |-> NoneHeld, pages |-> NoneHeld]

\* ------------------------------------------------ UIComponents.createPagination
Floor2(n) == n \div 2

WindowStart0(c) == Max(1, c - Floor2(maxVisible))

WindowEnd(c, t) == Min(t, WindowStart0(c) + maxVisible - 1)

WindowStartNoSlide(c, t) == WindowStart0(c)

WindowStart(c, t) ==
    IF WindowEnd(c, t) - WindowStart0(c) + 1 < maxVisible
    THEN Max(1, WindowEnd(c, t) - maxVisible + 1)
    ELSE WindowStart0(c)

Ctl(kind, page, flag) == [kind |-> kind, page |-> page, flag |-> flag]

PrevButton(c, t) == <<Ctl("prev", c - 1, c = 1)>>

NextButtonNeverDisabled(c, t) == <<Ctl("next", c + 1, FALSE)>>

NextButton(c, t) == <<Ctl("next", c + 1, c = t)>>

LeadingEdgeAlwaysDots(c, t) ==
    IF WindowStart(c, t) > 1
    THEN <<Ctl("edge", 1, FALSE), Ctl("dots", 0, FALSE)>>
    ELSE <<>>

LeadingEdge(c, t) ==
    IF WindowStart(c, t) > 1
    THEN <<Ctl("edge", 1, FALSE)>>
         \o (IF WindowStart(c, t) > 2 THEN <<Ctl("dots", 0, FALSE)>> ELSE <<>>)
    ELSE <<>>

PageNumbers(c, t) ==
    LET s == WindowStart(c, t)
        e == WindowEnd(c, t)
    IN  IF e < s THEN <<>>
        ELSE [i \in 1..(e - s + 1) |-> Ctl("num", s + i - 1, s + i - 1 = c)]

TrailingEdge(c, t) ==
    IF WindowEnd(c, t) < t
    THEN (IF WindowEnd(c, t) < t - 1 THEN <<Ctl("dots", 0, FALSE)>> ELSE <<>>)
         \o <<Ctl("edge", t, FALSE)>>
    ELSE <<>>

createPagination(c, t) ==
    PrevButton(c, t) \o LeadingEdge(c, t) \o PageNumbers(c, t)
    \o TrailingEdge(c, t) \o NextButton(c, t)

\* PhotoGallery.renderPagination, given the page count just written
renderPagination(c, t) ==
    IF t <= 1
    THEN [display |-> "none", html |-> pagination.html]
    ELSE [display |-> "flex", html |-> createPagination(c, t)]

\* ------------------------------------------------------- PhotoService.getPhotos
getPhotosParams(page, f) ==
    [page |-> page, limit |-> ITEMS_PER_PAGE, search |-> f.search,
     sort |-> f.sort, location |-> f.location, minRating |-> f.minRating]

\* String(value) for the non-negative integers among the parameter values
Digits == <<"0", "1", "2", "3", "4", "5", "6", "7", "8", "9">>

RECURSIVE NumberToString(_)
NumberToString(n) ==
    IF n < 10 THEN Digits[n + 1]
    ELSE NumberToString(n \div 10) \o Digits[(n % 10) + 1]

\* new URLSearchParams(params): one (name, value) entry per own property of
\* params in insertion order, each value converted to a string; an empty
\* string value is kept as an entry.
ParamEntries(params) ==
    << <<"page", NumberToString(params.page)>>,
       <<"limit", NumberToString(params.limit)>>,
       <<"search", params.search>>,
       <<"sort", params.sort>>,
       <<"location", params.location>>,
       <<"minRating", NumberToString(params.minRating)>> >>

HasValue(entry) == entry[2] # ""

URLSearchParamsSkipEmpty(params) == SelectSeq(ParamEntries(params), HasValue)

URLSearchParams(params) == ParamEntries(params)

\* The request ApiService.get sends for PhotoService.getPhotos(page, f)
Request(id, page, f) ==
    [id |-> id, params |-> getPhotosParams(page, f),
     query |-> URLSearchParams(getPhotosParams(page, f))]

\* ------------------------------------------------------------------------ Init
Init ==
    /\ currentPage = 1
    /\ totalPages = 1
    /\ filters = DefaultFilters
    /\ photos = Undefined
    /\ pagination = [display |-> "initial", html |-> <<>>]
    /\ inflight = {}
    /\ nextId = 1
    /\ heldFrom = NoHeld
    /\ currentUser = NullUser
    /\ lsUser = NullItem
    /\ lsToken = Null
    /\ logins = 0
    /\ posts = {}
    /\ lastOp = Op("init", "none", "none")

\* ------------------------------------------------------- PhotoGallery.loadPhotos
\* Up to the first await: PhotoService.getPhotos -> ApiService.get -> fetch(url)
\* run synchronously, so the request carries the page and filters passed here.
loadPhotosIssue(page, f) ==
    /\ nextId <= MaxFetches
    /\ inflight' = inflight \cup {Request(nextId, page, f)}
    /\ nextId' = nextId + 1

\* What the server (or the network) answers to GET /photos.
\* pagination.present = FALSE is a body without a pagination object.
NoPagination == [present |-> FALSE, pages |-> 0]
GetFailures ==
    [kind : {"network", "http", "parse"}, photos : {Undefined},
     pagination : {NoPagination}, statsThrows : {FALSE}]
GetBodies ==
    [kind : {"ok"}, photos : PhotoLists \cup {Undefined},
     pagination : {NoPagination}, statsThrows : {FALSE}]
    \cup [kind : {"ok"}, photos : PhotoLists \cup {Undefined},
          pagination : [present : {TRUE}, pages : 0..MaxPages],
          statsThrows : BOOLEAN]
GetOutcomes == GetFailures \cup GetBodies

\* response.photos || []
PhotosOf(o) == IF o.photos = Undefined THEN EmptyList ELSE o.photos

\* response.pagination?.pages || 1
PagesOf(o) ==
    IF ~o.pagination.present THEN 1
    ELSE IF o.pagination.pages = 0 THEN 1 ELSE o.pagination.pages

Source(r) == [id |-> r.id, params |-> r.params]

\* Lines 503-507: both fields are written in one synchronous run.
loadPhotosApplyPhotosOnly(r, o) ==
    /\ photos' = PhotosOf(o)
    /\ totalPages' = totalPages
    /\ pagination' = renderPagination(currentPage, totalPages)
    /\ heldFrom' = [heldFrom EXCEPT !.photos = Source(r)]

loadPhotosApplyUnlessStale(r, o) ==
    IF r.id = nextId - 1
    THEN /\ photos' = PhotosOf(o)
         /\ totalPages' = PagesOf(o)
         /\ pagination' = renderPagination(currentPage, PagesOf(o))
         /\ heldFrom' = [photos |-> Source(r), pages |-> Source(r)]
    ELSE UNCHANGED <<photos, totalPages, pagination, heldFrom>>

loadPhotosApply(r, o) ==
    /\ photos' = PhotosOf(o)
    /\ totalPages' = PagesOf(o)
    /\ pagination' = renderPagination(currentPage, PagesOf(o))
    /\ heldFrom' = [photos |-> Source(r), pages |-> Source(r)]

\* Lines 515-519: the catch block writes no view state.
loadPhotosCatchClearing(r) ==
    /\ photos' = EmptyList
    /\ UNCHANGED <<totalPages, pagination, heldFrom>>

loadPhotosCatch(r) ==
    UNCHANGED <<photos, totalPages, pagination, heldFrom>>

\* The statement at line 511 assigns to an optional chain, which is not a
\* valid assignment target: where it is reached (response.pagination truthy)
\* it either raises into the catch block or has no effect on this state.
loadPhotosSettle(r, o) ==
    /\ r \in inflight
    /\ inflight' = inflight \ {r}
    /\ UNCHANGED <<currentPage, filters, nextId, authVars>>
    /\ IF o.kind = "ok"
       THEN /\ loadPhotosApply(r, o)
            /\ lastOp' =
                 [(IF o.statsThrows THEN Op("loadPhotos", "stats", "rejected")
                   ELSE Op("loadPhotos", "none", "resolved"))
                  EXCEPT !.page = r.params.page, !.id = r.id,
                         !.notified = o.statsThrows,
                         !.applied = (heldFrom'.photos.id = r.id),
                         !.prev = heldFrom.photos.id]
       ELSE /\ loadPhotosCatch(r)
            /\ lastOp' = [Op("loadPhotos", o.kind, "rejected")
                          EXCEPT !.page = r.params.page, !.id = r.id,
                                 !.notified = TRUE]

\* --------------------------------------------------------- PhotoGallery.goToPage
goToPageGuardNoUpper(page) == page >= 1

goToPageGuard(page) == page >= 1 /\ page <= totalPages

goToPage(page) ==
    IF goToPageGuard(page)
    THEN /\ currentPage' = page
         /\ loadPhotosIssue(page, filters)
         /\ lastOp' = [Op("goToPage", "none", "issued")
                       EXCEPT !.page = page, !.id = nextId]
         /\ UNCHANGED <<totalPages, filters, photos, pagination, heldFrom,
                        authVars>>
    ELSE /\ lastOp' = [Op("goToPage", "none", "noop") EXCEPT !.page = page]
         /\ UNCHANGED <<galleryVars, authVars>>

\* ------------------------------------------------------ PhotoGallery.searchPhotos
\* input is the value of #globalSearch, or NoElement when the element is absent.
searchPhotosKeepPage(input) ==
    IF input # NoElement
    THEN /\ filters' = [filters EXCEPT !.search = input]
         /\ currentPage' = currentPage
         /\ loadPhotosIssue(currentPage, [filters EXCEPT !.search = input])
         /\ lastOp' = [Op("searchPhotos", "none", "issued")
                       EXCEPT !.text = input, !.id = nextId,
                              !.prev = currentPage]
         /\ UNCHANGED <<totalPages, photos, pagination, heldFrom, authVars>>
    ELSE /\ lastOp' = [Op("searchPhotos", "none", "noop")
                       EXCEPT !.text = input]
         /\ UNCHANGED <<galleryVars, authVars>>

searchPhotos(input) ==
    IF input # NoElement
    THEN /\ filters' = [filters EXCEPT !.search = input]
         /\ currentPage' = 1
         /\ loadPhotosIssue(1, [filters EXCEPT !.search = input])
         /\ lastOp' = [Op("searchPhotos", "none", "issued")
                       EXCEPT !.text = input, !.id = nextId,
                              !.prev = currentPage]
         /\ UNCHANGED <<totalPages, photos, pagination, heldFrom, authVars>>
    ELSE /\ lastOp' = [Op("searchPhotos", "none", "noop")
                       EXCEPT !.text = input]
         /\ UNCHANGED <<galleryVars, authVars>>

\* ------------------------------------------------------------------ AuthService
\* JSON.stringify / JSON.parse of the user record kept in localStorage
JSONstringify(u) == <<"json", u.id, u.username, u.role>>

JSONparse(str) == [id |-> str[2], username |-> str[3], role |-> str[4]]

\* AuthService.getCurrentUser: the value returned; the caller also caches it
\* in appState.currentUser.
getCurrentUserValue ==
    IF currentUser # NullUser THEN currentUser
    ELSE IF lsUser # NullItem THEN JSONparse(lsUser) ELSE NullUser

getCurrentUser ==
    /\ currentUser' = getCurrentUserValue
    /\ lastOp' = [Op("getCurrentUser", "none", "resolved")
                  EXCEPT !.user = getCurrentUserValue]
    /\ UNCHANGED <<galleryVars, lsUser, lsToken, logins, posts>>

login ==
    /\ logins < MaxLogins
    /\ logins' = logins + 1
    /\ lastOp' = Op("login", "none", "issued")
    /\ UNCHANGED <<galleryVars, currentUser, lsUser, lsToken, posts>>

\* The answer to POST /login: a network failure, a body without
\* success/user, or a body with success and a user record.
LoginOutcomes ==
    [kind : {"network", "denied"}, user : {NullUser}]
    \cup [kind : {"ok"}, user : Users]

loginSettle(o) ==
    /\ logins > 0
    /\ logins' = logins - 1
    /\ IF o.kind = "ok"
       THEN /\ lsUser' = JSONstringify(o.user)
            /\ lsToken' = "authenticated"
            /\ currentUser' = o.user
       ELSE UNCHANGED <<currentUser, lsUser, lsToken>>
    /\ lastOp' = [Op("loginDone", o.kind, "resolved") EXCEPT !.user = o.user]
    /\ UNCHANGED <<galleryVars, posts>>

\* window.location.href = 'index.html' starts a navigation; the document
\* that replaces this one is PageLoad below.
logoutKeepToken ==
    /\ lsUser' = NullItem
    /\ lsToken' = lsToken
    /\ currentUser' = NullUser
    /\ lastOp' = Op("logout", "none", "resolved")
    /\ UNCHANGED <<galleryVars, logins, posts>>

logout ==
    /\ lsUser' = NullItem
    /\ lsToken' = Null
    /\ currentUser' = NullUser
    /\ lastOp' = Op("logout", "none", "resolved")
    /\ UNCHANGED <<galleryVars, logins, posts>>

isAuthenticated == lsToken # Null

\* ------------------------------------------ PhotoService.addComment / ratePhoto
PostKinds == {"comment", "rate"}

NeedsUserNever(user) == FALSE

NeedsUser(user) == user = NullUser

submit(kind, photoId) ==
    LET user == getCurrentUserValue
    IN  /\ currentUser' = user
        /\ IF NeedsUser(user)
           THEN /\ posts' = posts
                /\ lastOp' = [Op(kind, "validation", "rejected")
                              EXCEPT !.id = photoId]
           ELSE /\ [kind |-> kind, photoId |-> photoId, user_id |-> user.id]
                      \notin posts
                /\ posts' = posts \cup
                     {[kind |-> kind, photoId |-> photoId,
                       user_id |-> user.id]}
                /\ lastOp' = [Op(kind, "none", "issued")
                              EXCEPT !.id = photoId]
        /\ UNCHANGED <<galleryVars, lsUser, lsToken, logins>>

addComment(photoId) == submit("comment", photoId)

ratePhoto(photoId) == submit("rate", photoId)

\* ApiService.post: fetch may reject; otherwise response.json() is returned
\* whatever response.ok is, and rejects only when the body does not parse.
PostOutcomes ==
    [kind : {"network"}, ok : {FALSE}, parses : {FALSE}]
    \cup [kind : {"response"}, ok : BOOLEAN, parses : BOOLEAN]

postCause(o) ==
    IF o.kind = "network" THEN "network"
    ELSE IF ~o.ok THEN "http"
    ELSE IF ~o.parses THEN "parse" ELSE "none"

postResult(o) ==
    IF o.kind = "response" /\ o.parses THEN "resolved" ELSE "rejected"

postSettle(p, o) ==
    /\ p \in posts
    /\ posts' = posts \ {p}
    /\ lastOp' = [Op(p.kind \o "Done", postCause(o), postResult(o))
                  EXCEPT !.id = p.photoId]
    /\ UNCHANGED <<galleryVars, currentUser, lsUser, lsToken, logins>>

\* ------------------------------------------------------------- document load
\* A (re)load of a document that includes the script: the module state is
\* initialised afresh, callbacks of the previous document never run, and the
\* DOMContentLoaded listener runs.
PageLoad(doc) ==
    /\ currentPage' = 1
    /\ totalPages' = 1
    /\ filters' = DefaultFilters
    /\ photos' = Undefined
    /\ pagination' = [display |-> "initial", html |-> <<>>]
    /\ heldFrom' = NoHeld
    /\ logins' = 0
    /\ posts' = {}
    /\ currentUser' = IF lsUser # NullItem THEN JSONparse(lsUser) ELSE NullUser
    /\ UNCHANGED <<lsUser, lsToken>>
    /\ IF doc = "consumer.html"
       THEN /\ nextId <= MaxFetches
            /\ inflight' = {Request(nextId, 1, DefaultFilters)}
            /\ nextId' = nextId + 1
       ELSE /\ inflight' = {}
            /\ nextId' = nextId
    /\ lastOp' = [Op("pageLoad", "none", "resolved") EXCEPT !.text = doc]

\* ------------------------------------------------------------------------ Next
GoToPage == \E page \in 0..(MaxPages + 1) : goToPage(page)

SearchPhotos == \E input \in Terms \cup {NoElement} : searchPhotos(input)

LoadPhotosSettle == \E r \in inflight : \E o \in GetOutcomes : loadPhotosSettle(r, o)

GetCurrentUser == getCurrentUser

Login == login

LoginSettle == \E o \in LoginOutcomes : loginSettle(o)

Logout == logout

AddComment == \E photoId \in PhotoIds : addComment(photoId)

RatePhoto == \E photoId \in PhotoIds : ratePhoto(photoId)

PostSettle == \E p \in posts : \E o \in PostOutcomes : postSettle(p, o)

DOMContentLoaded == \E doc \in Documents : PageLoad(doc)

\* The gallery view-state machine: PhotoGallery and the document load.
Next ==
    \/ GoToPage
    \/ SearchPhotos
    \/ LoadPhotosSettle
    \/ DOMContentLoaded

Spec == Init /\ [][Next]_vars

\* The session and the submissions that need it: AuthService, addComment,
\* ratePhoto, and the document load with the fetch it starts.
AuthNext ==
    \/ GetCurrentUser
    \/ Login
    \/ LoginSettle
    \/ Logout
    \/ AddComment
    \/ RatePhoto
    \/ PostSettle
    \/ LoadPhotosSettle
    \/ DOMContentLoaded

AuthSpec == Init /\ [][AuthNext]_vars

\* ------------------------------------------- createPagination on its own
\* UIComponents.createPagination applied to every 1 <= c <= t <= MaxTotal.
PagInit ==
    /\ currentPage \in 1..MaxTotal
    /\ totalPages \in currentPage..MaxTotal
    /\ filters = DefaultFilters
    /\ photos = Undefined
    /\ pagination = [display |-> "initial", html |-> <<>>]
    /\ inflight = {}
    /\ nextId = 1
    /\ heldFrom = NoHeld
    /\ currentUser = NullUser
    /\ lsUser = NullItem
    /\ lsToken = Null
    /\ logins = 0
    /\ posts = {}
    /\ lastOp = Op("init", "none", "none")

CreatePagination ==
    /\ lastOp.op = "init"
    /\ pagination' = [display |-> pagination.display,
                      html |-> createPagination(currentPage, totalPages)]
    /\ lastOp' = [Op("createPagination", "none", "resolved")
                  EXCEPT !.page = currentPage]
    /\ UNCHANGED <<currentPage, totalPages, filters, photos, inflight, nextId,
                   heldFrom, authVars>>

PagNext == CreatePagination

PaginationSpec == PagInit /\ [][PagNext]_vars

\* ====================================================================== claims
Issued == inflight' \ inflight

\* C1: goToPage(n) with 1 <= n <= totalPages sets currentPage to n and issues
\* exactly one photo fetch carrying page n; with n outside that range it
\* leaves currentPage, filters, the photo list and totalPages unchanged and
\* issues no fetch.
C1_GoToPage ==
    [][lastOp'.op = "goToPage" =>
        IF lastOp'.page >= 1 /\ lastOp'.page <= totalPages
        THEN /\ currentPage' = lastOp'.page
             /\ inflight \subseteq inflight'
             /\ Cardinality(Issued) = 1
             /\ \A r \in Issued : r.params.page = lastOp'.page
             /\ UNCHANGED <<filters, photos, totalPages>>
        ELSE /\ UNCHANGED <<currentPage, filters, photos, totalPages>>
             /\ inflight' = inflight
             /\ nextId' = nextId]_vars

C1_Witness ==
    /\ lastOp.op = "goToPage"
    /\ lastOp.result = "issued"
    /\ lastOp.page > 1
    /\ currentPage = lastOp.page
    /\ \E r \in inflight : r.id = lastOp.id /\ r.params.page = lastOp.page

\* C2: a photo fetch that fails by a network failure or a non-success
\* response leaves currentPage, filters, the photo list and totalPages as
\* they were, rejects to its caller and shows an error notification.
C2_FailedFetch ==
    [][(lastOp'.op = "loadPhotos" /\ lastOp'.cause \in {"network", "http"}) =>
        /\ UNCHANGED <<currentPage, filters, photos, totalPages>>
        /\ lastOp'.result = "rejected"
        /\ lastOp'.notified]_vars

C2_Witness ==
    /\ lastOp.op = "loadPhotos"
    /\ lastOp.cause \in {"network", "http"}
    /\ lastOp.result = "rejected"
    /\ photos = "[p1]"
    /\ totalPages > 1
    /\ currentPage > 1

\* C3: in every reachable state 1 <= currentPage <= totalPages.
C3_PageInRange == currentPage >= 1 /\ currentPage <= totalPages

\* C4: in every reachable state with no fetch in flight, the held photo
\* list and totalPages are the response to a request made with the current
\* currentPage and the current filters.
C4_HeldMatchesState ==
    (inflight = {} /\ heldFrom.photos.id # 0) =>
        /\ heldFrom.photos.params = getPhotosParams(currentPage, filters)
        /\ heldFrom.pages.params = getPhotosParams(currentPage, filters)

\* C5: searchPhotos with search text x sets filters.search to x, resets
\* currentPage to 1 whatever it was, and issues one fetch carrying page 1
\* and search x.
C5_Search ==
    [][(lastOp'.op = "searchPhotos" /\ lastOp'.text # NoElement) =>
        /\ filters' = [filters EXCEPT !.search = lastOp'.text]
        /\ currentPage' = 1
        /\ inflight \subseteq inflight'
        /\ Cardinality(Issued) = 1
        /\ \A r \in Issued :
              r.params.page = 1 /\ r.params.search = lastOp'.text]_vars

C5_Witness ==
    /\ lastOp.op = "searchPhotos"
    /\ lastOp.result = "issued"
    /\ lastOp.prev > 1
    /\ lastOp.text = "cat"
    /\ currentPage = 1
    /\ filters.search = "cat"

\* C6: goToPage and searchPhotos never remove a fetch already in flight, and
\* every successful response is applied whatever its place in the issue
\* order; so an older response can replace the data of a newer one.
C6_NoCancelNoOrder ==
    [][/\ (lastOp'.op \in {"goToPage", "searchPhotos"} =>
              inflight \subseteq inflight')
       /\ ((lastOp'.op = "loadPhotos" /\ lastOp'.cause \in {"none", "stats"}) =>
              /\ heldFrom'.photos.id = lastOp'.id
              /\ heldFrom'.pages.id = lastOp'.id)]_vars

C6_Witness ==
    /\ lastOp.op = "loadPhotos"
    /\ lastOp.applied
    /\ lastOp.prev > lastOp.id
    /\ heldFrom.photos.id = lastOp.id
    /\ heldFrom.pages.id = lastOp.id

\* C7: the photo list and totalPages always come from the same response:
\* a settling fetch replaces both from its own response or changes neither.
C7_SameResponse ==
    /\ [](heldFrom.photos = heldFrom.pages)
    /\ [][lastOp'.op = "loadPhotos" =>
            \/ /\ heldFrom'.photos.id = lastOp'.id
               /\ heldFrom'.pages.id = lastOp'.id
            \/ UNCHANGED <<photos, totalPages, heldFrom>>]_vars

C7_Witness ==
    /\ lastOp.op = "loadPhotos"
    /\ lastOp.applied
    /\ lastOp.prev # 0
    /\ inflight # {}
    /\ heldFrom.photos.id = lastOp.id

\* C8: addComment and ratePhoto called with no in-memory user and no
\* persisted user record fail with a validation error and issue no request.
C8_NoUserNoCall ==
    [][(lastOp'.op \in PostKinds /\ currentUser = NullUser
        /\ lsUser = NullItem) =>
        /\ lastOp'.result = "rejected"
        /\ lastOp'.cause = "validation"
        /\ posts' = posts
        /\ inflight' = inflight
        /\ logins' = logins]_vars

C8_Witness ==
    /\ lastOp.op \in PostKinds
    /\ lastOp.cause = "validation"
    /\ lastOp.result = "rejected"
    /\ currentUser = NullUser
    /\ lsUser = NullItem
    /\ posts = {}

\* C9: every request answered by a non-success response (photo fetch,
\* comment, rating) is reported to its caller as an error and not retried.
C9_ServerErrorReported ==
    [][lastOp'.cause = "http" =>
        /\ lastOp'.result = "rejected"
        /\ inflight' \subseteq inflight
        /\ posts' \subseteq posts
        /\ nextId' = nextId]_vars

\* C10: for 1 <= c <= t the page numbers of createPagination(c, t) are a
\* contiguous range inside [1, t] that contains c and has min(5, t)
\* numbers; [8..12] for t = 20, c = 10 and [1..3] for t = 3, c = 1.
IsNum(ctl) == ctl.kind = "num"

WindowOf(html) == SelectSeq(html, IsNum)

C10_Window ==
    lastOp.op = "createPagination" =>
        LET w == WindowOf(pagination.html)
            c == currentPage
            t == totalPages
        IN  /\ Len(w) = Min(maxVisible, t)
            /\ \A i \in 1..(Len(w) - 1) : w[i + 1].page = w[i].page + 1
            /\ w[1].page >= 1
            /\ w[Len(w)].page <= t
            /\ \E i \in 1..Len(w) : w[i].page = c
            /\ (t = 20 /\ c = 10) =>
                  [i \in 1..Len(w) |-> w[i].page] = <<8, 9, 10, 11, 12>>
            /\ (t = 3 /\ c = 1) =>
                  [i \in 1..Len(w) |-> w[i].page] = <<1, 2, 3>>

C10_Witness ==
    /\ lastOp.op = "createPagination"
    /\ totalPages > maxVisible
    /\ currentPage = totalPages
    /\ Len(WindowOf(pagination.html)) = maxVisible
    /\ WindowOf(pagination.html)[1].page = totalPages - maxVisible + 1

\* C11: createPagination shows an edge button for page 1 together with an
\* ellipsis exactly when the window does not start at page 1, and an edge
\* button for page t together with an ellipsis exactly when the window does
\* not end at page t; a window spanning [1, t] has neither.
IsEdgeOrDots(ctl) == ctl.kind \in {"edge", "dots"}

FirstNum(html) == CHOOSE i \in 1..Len(html) :
    html[i].kind = "num" /\ \A j \in 1..(i - 1) : html[j].kind # "num"

LastNum(html) == CHOOSE i \in 1..Len(html) :
    html[i].kind = "num" /\ \A j \in (i + 1)..Len(html) : html[j].kind # "num"

LeadHas(html, kind, page) ==
    \E i \in 1..(FirstNum(html) - 1) :
        html[i].kind = kind /\ html[i].page = page

TrailHas(html, kind, page) ==
    \E i \in (LastNum(html) + 1)..Len(html) :
        html[i].kind = kind /\ html[i].page = page

C11_EdgeWithDots ==
    lastOp.op = "createPagination" =>
        LET html == pagination.html
            w == WindowOf(html)
            t == totalPages
        IN  /\ (LeadHas(html, "edge", 1) /\ LeadHas(html, "dots", 0))
                  <=> (w[1].page # 1)
            /\ (TrailHas(html, "edge", t) /\ TrailHas(html, "dots", 0))
                  <=> (w[Len(w)].page # t)
            /\ (w[1].page = 1 /\ w[Len(w)].page = t) =>
                  SelectSeq(html, IsEdgeOrDots) = <<>>

\* C11 as amended: the edge button for page 1 is shown exactly when the
\* window starts after page 1 and its ellipsis exactly when the window
\* starts after page 2; the edge button for page t exactly when the window
\* ends before t and its ellipsis exactly when it ends before t - 1; a
\* window spanning [1, t] has neither.
C11_EdgeAndGap ==
    lastOp.op = "createPagination" =>
        LET html == pagination.html
            w == WindowOf(html)
            t == totalPages
        IN  /\ LeadHas(html, "edge", 1) <=> (w[1].page > 1)
            /\ LeadHas(html, "dots", 0) <=> (w[1].page > 2)
            /\ TrailHas(html, "edge", t) <=> (w[Len(w)].page < t)
            /\ TrailHas(html, "dots", 0) <=> (w[Len(w)].page < t - 1)
            /\ Len(SelectSeq(html, IsEdgeOrDots)) <= 4
            /\ (w[1].page = 1 /\ w[Len(w)].page = t) =>
                  SelectSeq(html, IsEdgeOrDots) = <<>>

C11_Witness ==
    /\ lastOp.op = "createPagination"
    /\ WindowOf(pagination.html)[1].page = 2
    /\ LeadHas(pagination.html, "edge", 1)
    /\ ~LeadHas(pagination.html, "dots", 0)
    /\ TrailHas(pagination.html, "edge", totalPages)
    /\ TrailHas(pagination.html, "dots", 0)

\* C12: the query parameters of a fetch are determined by (currentPage,
\* filters, page size 12): every request issued carries exactly page =
\* currentPage, limit = 12 and the four filter fields search, sort, location
\* and minRating with the filters' values, search being present as an empty
\* string when filters.search is empty.
C12_QueryParams ==
    [][\A r \in Issued :
        /\ Len(r.query) = 6
        /\ r.query[1] = <<"page", NumberToString(currentPage')>>
        /\ (currentPage' = 2 => r.query[1][2] = "2")
        /\ r.query[2] = <<"limit", "12">>
        /\ r.query[3] = <<"search", filters'.search>>
        /\ r.query[4] = <<"sort", filters'.sort>>
        /\ r.query[5] = <<"location", filters'.location>>
        /\ r.query[6] = <<"minRating", "0">>
        /\ filters'.minRating = 0]_vars

C12_Witness ==
    \E r \in inflight :
        /\ r.id = nextId - 1
        /\ r.params.page = 2
        /\ currentPage = 2
        /\ filters.search = ""
        /\ r.query[1] = <<"page", "2">>
        /\ r.query[3] = <<"search", "">>

\* C13: in the controls of createPagination(c, t) the Previous control is
\* disabled exactly when c = 1 and the Next control exactly when c = t.
IsPrev(ctl) == ctl.kind = "prev"

IsNext(ctl) == ctl.kind = "next"

C13_PrevNextDisabled ==
    lastOp.op = "createPagination" =>
        LET prev == SelectSeq(pagination.html, IsPrev)
            next == SelectSeq(pagination.html, IsNext)
        IN  /\ Len(prev) = 1
            /\ Len(next) = 1
            /\ prev[1].flag <=> (currentPage = 1)
            /\ next[1].flag <=> (currentPage = totalPages)
            /\ pagination.html[1] = prev[1]
            /\ pagination.html[Len(pagination.html)] = next[1]

C13_Witness ==
    /\ lastOp.op = "createPagination"
    /\ currentPage = totalPages
    /\ totalPages > 1
    /\ pagination.html[Len(pagination.html)].kind = "next"
    /\ pagination.html[Len(pagination.html)].flag
    /\ pagination.html[1].kind = "prev"
    /\ ~pagination.html[1].flag

\* C14: starting from an empty session store, the persisted token is present
\* exactly when the persisted user record is, so isAuthenticated() holds
\* exactly when getCurrentUser() returns a user; a rejected or failed login
\* leaves the store and the in-memory user unchanged; and right after
\* logout getCurrentUser() returns null.
C14_Session ==
    /\ []((lsToken # Null) <=> (lsUser # NullItem))
    /\ [](isAuthenticated <=> (getCurrentUserValue # NullUser))
    /\ [][/\ (lastOp'.op = "getCurrentUser" =>
                ((lastOp'.user # NullUser) <=> isAuthenticated'))
          /\ ((lastOp'.op = "loginDone"
               /\ lastOp'.cause \in {"network", "denied"}) =>
                UNCHANGED <<currentUser, lsUser, lsToken>>)
          /\ (lastOp'.op = "logout" =>
                /\ getCurrentUserValue' = NullUser
                /\ ~isAuthenticated')]_vars

C14_Witness ==
    /\ lastOp.op = "loginDone"
    /\ lastOp.cause \in {"network", "denied"}
    /\ lsUser # NullItem
    /\ lsToken = "authenticated"
    /\ currentUser \in Users
    /\ isAuthenticated

====
